---- MODULE Spec2Model ----
(***************************************************************************)
(* A model of the retrieval-augmented-generation subsystem of the          *)
(* repository (src/rag_system.py) and of the provider wrapper it uses      *)
(* (src/openai_config.py).                                                 *)
(*                                                                         *)
(* Texts are sequences of one-character strings.  NL is the newline.       *)
(***************************************************************************)
EXTENDS Integers, Sequences, FiniteSets, TLC

VARIABLES
    chunker,              \* one call of _chunk_text in progress
    openai_client,        \* self.openai_client is not None
    index,                \* self.index
    documents,            \* self.documents, in insertion order
    vector_store_file,    \* VECTOR_STORE_PATH on disk
    document_store_file,  \* DOCUMENT_STORE_PATH on disk
    corpus,               \* the working tree initialize() reads
    ret                   \* what the last call returned, and the provider calls it made

vars == <<chunker, openai_client, index, documents, vector_store_file,
          document_store_file, corpus, ret>>

rag_vars == <<openai_client, index, documents, vector_store_file,
              document_store_file, corpus, ret>>

NL == "\n"

\* The paragraph separator of _chunk_text, "\n\n".
ParagraphSep == <<NL, NL>>

Min(S) == CHOOSE x \in S : \A y \in S : x <= y

(***************************************************************************)
(* str.split("\n\n"): the separator is matched leftmost, without overlap.  *)
(* Inside a maximal run of newlines that starts at s, the matches start at *)
(* s, s+2, s+4, ... as long as two newlines are left.                      *)
(***************************************************************************)
RunStart(t, i) ==
    CHOOSE j \in 1..i :
        /\ \A k \in j..i : t[k] = NL
        /\ (j = 1 \/ t[j - 1] # NL)

SepStarts(t) ==
    {i \in 1..(Len(t) - 1) :
        /\ t[i] = NL
        /\ t[i + 1] = NL
        /\ (i - RunStart(t, i)) % 2 = 0}

RECURSIVE SplitFrom(_, _, _)
SplitFrom(t, from, seps) ==
    IF seps = {}
    THEN <<SubSeq(t, from, Len(t))>>
    ELSE LET m == Min(seps)
         IN  <<SubSeq(t, from, m - 1)>> \o SplitFrom(t, m + 2, seps \ {m})

\* text.split("\n\n"); the split of the empty text is one empty paragraph.
Split(t) == SplitFrom(t, 1, SepStarts(t))

RECURSIVE Join(_)
\* "\n\n".join(parts)
Join(parts) ==
    IF parts = <<>> THEN <<>>
    ELSE IF Len(parts) = 1 THEN parts[1]
    ELSE parts[1] \o ParagraphSep \o Join(Tail(parts))

(***************************************************************************)
(* Python's s[-k:].  For k > 0 it is the last min(k, len(s)) characters;   *)
(* for k = 0 it is s[0:], the whole string; for k < 0 it is s[|k|:].       *)
(***************************************************************************)
PySuffix(s, k) ==
    IF k = 0 THEN s
    ELSE IF k > 0
         THEN (IF k >= Len(s) THEN s ELSE SubSeq(s, Len(s) - k + 1, Len(s)))
         ELSE SubSeq(s, 1 - k, Len(s))

\* The last k characters of s (k >= 0), as the words "the last k characters" mean it.
LastChars(s, k) ==
    IF k >= Len(s) THEN s ELSE SubSeq(s, Len(s) - k + 1, Len(s))

IsPrefix(p, s) == Len(p) <= Len(s) /\ SubSeq(s, 1, Len(p)) = p

(***************************************************************************)
(* _chunk_text.  One iteration of the loop over the paragraphs, on the     *)
(* pair (chunks, current_chunk).                                           *)
(***************************************************************************)
\* Variant: the next chunk never carries text of the previous one.
SeedWithoutOverlap(current_chunk, paragraph, overlap) ==
    paragraph

\* Variant: the next chunk carries the tail of the previous one whatever its length.
SeedAlwaysOverlap(current_chunk, paragraph, overlap) ==
    PySuffix(current_chunk, overlap) \o ParagraphSep \o paragraph

\* The buffer a split starts the next chunk with.
SeedAfterSplit(current_chunk, paragraph, overlap) ==
    IF Len(current_chunk) > overlap
    THEN PySuffix(current_chunk, overlap) \o ParagraphSep \o paragraph
    ELSE paragraph

\* Variant: the split does not ask for a buffer that holds text.
SplitsBeforeAnyBuffer(current_chunk, paragraph, chunk_size) ==
    Len(current_chunk) + Len(paragraph) > chunk_size

\* Whether the paragraph makes the loop emit current_chunk.
SplitsBefore(current_chunk, paragraph, chunk_size) ==
    Len(current_chunk) + Len(paragraph) > chunk_size /\ current_chunk # <<>>

\* Variant: a paragraph is appended to the buffer without the separator.
ChunkStepJoinsBare(st, paragraph, chunk_size, overlap) ==
    IF SplitsBefore(st.current_chunk, paragraph, chunk_size)
    THEN [chunks |-> Append(st.chunks, st.current_chunk),
          current_chunk |-> SeedAfterSplit(st.current_chunk, paragraph, overlap)]
    ELSE [chunks |-> st.chunks, current_chunk |-> st.current_chunk \o paragraph]

\* Lines 313-324: the body of the loop.
ChunkStep(st, paragraph, chunk_size, overlap) ==
    IF SplitsBefore(st.current_chunk, paragraph, chunk_size)
    THEN [chunks |-> Append(st.chunks, st.current_chunk),
          current_chunk |-> SeedAfterSplit(st.current_chunk, paragraph, overlap)]
    ELSE [chunks |-> st.chunks,
          current_chunk |-> IF st.current_chunk # <<>>
                            THEN st.current_chunk \o ParagraphSep \o paragraph
                            ELSE paragraph]

\* Variant: the buffer left after the last paragraph is dropped.
ChunkFinishDropsBuffer(st) ==
    st.chunks

\* After the loop: the last buffer is added if it is not empty.
ChunkFinish(st) ==
    IF st.current_chunk # <<>> THEN Append(st.chunks, st.current_chunk) ELSE st.chunks

RECURSIVE ChunkLoop(_, _, _, _)
ChunkLoop(st, paragraphs, chunk_size, overlap) ==
    IF paragraphs = <<>> THEN st
    ELSE ChunkLoop(ChunkStep(st, Head(paragraphs), chunk_size, overlap),
                   Tail(paragraphs), chunk_size, overlap)

\* _chunk_text(text, chunk_size, overlap) as a function of its arguments.
ChunkText(text, chunk_size, overlap) ==
    IF text = <<>> THEN <<>>
    ELSE ChunkFinish(ChunkLoop([chunks |-> <<>>, current_chunk |-> <<>>],
                               Split(text), chunk_size, overlap))

(***************************************************************************)
(* The chunker as a process: one call of _chunk_text, one paragraph a step.*)
(***************************************************************************)
MaxParagraphs == 3
MaxChunkSize == 4
MaxOverlap == 3

\* The paragraphs the input texts are joined from.
ParagraphPool ==
    {<<>>, <<"a">>, <<"b">>, <<"a", "b">>, <<"b", "a", "a">>, <<NL>>, <<"a", NL, "b">>}

RECURSIVE ParagraphLists(_)
ParagraphLists(n) ==
    IF n = 0 THEN {<<>>}
    ELSE LET shorter == ParagraphLists(n - 1)
         IN  shorter \cup {Append(l, p) : l \in {s \in shorter : Len(s) = n - 1},
                                          p \in ParagraphPool}

\* The input texts of the chunker: up to MaxParagraphs pool paragraphs, joined.
ChunkerTexts == {Join(l) : l \in ParagraphLists(MaxParagraphs)}

\* chunk_size and overlap of the two _chunk_text calls of the ingestion.
DocChunkSize == 1000
DocOverlap == 200

Repeat(c, n) == [i \in 1..n |-> c]

\* A document of the ingestion's scale: paragraphs of 400, 500 and 400 characters.
ExampleParagraphs == <<Repeat("a", 400), Repeat("b", 500), Repeat("c", 400)>>

ExampleText == Join(ExampleParagraphs)

ChunkerIdle ==
    [pc |-> "idle", text |-> <<>>, chunk_size |-> 1, overlap |-> 0,
     paragraphs |-> <<>>, pos |-> 1, chunks |-> <<>>, current_chunk |-> <<>>]

ChunkerCall(text, chunk_size, overlap) ==
    [pc |-> "start", text |-> text, chunk_size |-> chunk_size, overlap |-> overlap,
     paragraphs |-> <<>>, pos |-> 1, chunks |-> <<>>, current_chunk |-> <<>>]

InitChunk ==
    /\ chunker \in {ChunkerCall(t, s, o) :
                       t \in ChunkerTexts, s \in 1..MaxChunkSize, o \in 0..MaxOverlap}
                    \cup {ChunkerCall(ExampleText, DocChunkSize, DocOverlap)}
    /\ openai_client = FALSE
    /\ index = [present |-> FALSE, d |-> 0, xb |-> <<>>]
    /\ documents = <<>>
    /\ vector_store_file = [exists |-> FALSE, index |-> index]
    /\ document_store_file = [exists |-> FALSE, docs |-> <<>>]
    /\ corpus = <<>>
    /\ ret = <<>>

\* Lines 303-309: the empty text returns at once, any other is split.
ChunkBegin ==
    /\ chunker.pc = "start"
    /\ chunker' = IF chunker.text = <<>>
                  THEN [chunker EXCEPT !.pc = "done"]
                  ELSE [chunker EXCEPT !.pc = "loop",
                                       !.paragraphs = Split(chunker.text)]

\* Lines 311-324: one paragraph.
ChunkParagraph ==
    /\ chunker.pc = "loop"
    /\ chunker.pos <= Len(chunker.paragraphs)
    /\ LET st == ChunkStep([chunks |-> chunker.chunks,
                            current_chunk |-> chunker.current_chunk],
                           chunker.paragraphs[chunker.pos],
                           chunker.chunk_size, chunker.overlap)
       IN  chunker' = [chunker EXCEPT !.chunks = st.chunks,
                                      !.current_chunk = st.current_chunk,
                                      !.pos = chunker.pos + 1]

\* Lines 326-330: the last buffer, and the return.
ChunkReturn ==
    /\ chunker.pc = "loop"
    /\ chunker.pos > Len(chunker.paragraphs)
    /\ chunker' = [chunker EXCEPT
                      !.chunks = ChunkFinish([chunks |-> chunker.chunks,
                                              current_chunk |-> chunker.current_chunk]),
                      !.pc = "done"]

NextChunk ==
    \/ ChunkBegin /\ UNCHANGED rag_vars
    \/ ChunkParagraph /\ UNCHANGED rag_vars
    \/ ChunkReturn /\ UNCHANGED rag_vars

SpecChunk == InitChunk /\ [][NextChunk]_vars

\* The stepped chunker computes _chunk_text.
ChunkerAgrees ==
    chunker.pc = "done" =>
        chunker.chunks = ChunkText(chunker.text, chunker.chunk_size, chunker.overlap)


(***************************************************************************)
(* The provider.  A script is what the provider answers on the successive  *)
(* attempts of one request; after its end it keeps giving its last answer. *)
(***************************************************************************)
EMBEDDING_DIMENSION == 1536

\* stop_after_attempt(5) on chat_completion.
StopAfterAttempt == 5

\* retry_if_exception_type: RateLimitError, APITimeoutError, APIConnectionError.
TransientErrors == {"rate_limit", "timeout", "connection"}

Outcome(script, n) == IF n <= Len(script) THEN script[n] ELSE script[Len(script)]

\* A position on the provider's side of text: the geometry of its embeddings.
Coord(text) == Len(text)

\* What embeddings.create returns for text.
ProviderVector(text) ==
    [kind |-> "provider", of |-> text, x |-> Coord(text), d |-> EMBEDDING_DIMENSION]

\* np.random.rand(EMBEDDING_DIMENSION); r is the draw.
RandomVector(r) ==
    [kind |-> "random", of |-> <<>>, x |-> r, d |-> EMBEDDING_DIMENSION]

NoVector == [kind |-> "none", of |-> <<>>, x |-> 0, d |-> 0]

(***************************************************************************)
(* _get_embedding: without a client a random vector; with one, a single    *)
(* call of the provider, and None when that call raises.  `calls` is the   *)
(* number of requests sent to the provider.                                *)
(***************************************************************************)
GetEmbedding(client, text, script, r) ==
    IF ~client
    THEN [none |-> FALSE, vec |-> RandomVector(r), calls |-> 0]
    ELSE IF Outcome(script, 1) = "ok"
         THEN [none |-> FALSE, vec |-> ProviderVector(text), calls |-> 1]
         ELSE [none |-> TRUE, vec |-> NoVector, calls |-> 1]

(***************************************************************************)
(* chat_completion under its tenacity decorator: attempt n is repeated     *)
(* while it raises a transient error and n < 5; any other error, and the   *)
(* fifth transient one, reach the caller.                                  *)
(***************************************************************************)
RECURSIVE ChatAttemptRetriesAll(_, _)
\* Variant: every error is retried, not only the transient ones.
ChatAttemptRetriesAll(script, n) ==
    LET o == Outcome(script, n)
    IN  IF o = "ok" THEN [raised |-> FALSE, attempts |-> n]
        ELSE IF n < StopAfterAttempt
             THEN ChatAttemptRetriesAll(script, n + 1)
             ELSE [raised |-> TRUE, attempts |-> n]

RECURSIVE ChatAttempt(_, _)
ChatAttempt(script, n) ==
    LET o == Outcome(script, n)
    IN  IF o = "ok" THEN [raised |-> FALSE, attempts |-> n]
        ELSE IF o \in TransientErrors /\ n < StopAfterAttempt
             THEN ChatAttempt(script, n + 1)
             ELSE [raised |-> TRUE, attempts |-> n]

ChatCompletion(script) == ChatAttempt(script, 1)

(***************************************************************************)
(* The vector index (faiss.IndexFlatL2) and the document mapping.          *)
(***************************************************************************)
\* self.index = None
NoIndex == [present |-> FALSE, d |-> 0, xb |-> <<>>]

\* faiss.IndexFlatL2(d)
IndexFlatL2(d) == [present |-> TRUE, d |-> d, xb |-> <<>>]

\* index.add of one vector
IndexAdd(ix, vec) == [ix EXCEPT !.xb = Append(ix.xb, vec)]

\* self.documents[doc_id] = record: a new key goes last, a known key keeps its place.
Put(docs, record) ==
    IF \E n \in 1..Len(docs) : docs[n].id = record.id
    THEN [n \in 1..Len(docs) |-> IF docs[n].id = record.id THEN record ELSE docs[n]]
    ELSE Append(docs, record)

\* str(i) for a chunk number.
IntStr(i) == <<"0", "1", "2", "3", "4", "5", "6", "7", "8", "9">>[i + 1]

(***************************************************************************)
(* The working tree.  A markdown file is [dir, name, stem, text]; a report *)
(* file is [exists, json_ok, has_key, analysis], analysis a function from  *)
(* the fields present to their values.                                     *)
(***************************************************************************)

ShortReadme == <<"r", "e", "a", "d">>
\* Two paragraphs of 600 characters: two chunks.
LongReadme == Repeat("a", 600) \o ParagraphSep \o Repeat("b", 600)

\* A markdown file of the tree, as Path(".").glob("**/*.md") yields it.
\* `readable` is whether open() and read() of the file succeed.
MdFile(path, name, stem, text) ==
    [path |-> path, name |-> name, stem |-> stem, text |-> text, readable |-> TRUE]

GuideMd == MdFile("docs/guide.md", "guide.md", "guide", <<"g", "u", "i", "d", "e">>)
NotesMd == MdFile("docs/notes.md", "notes.md", "notes", <<"n", "1">>)
ApiNotesMd == MdFile("api/notes.md", "notes.md", "notes", <<"n", "2", "x">>)
LowerReadmeMd == MdFile("docs/readme.md", "readme.md", "readme", <<"l", "o", "w">>)
GitMd == MdFile(".git/info.md", "info.md", "info", <<"g", "i", "t">>)
SubReadmeMd == MdFile("pkg/README.md", "README.md", "README", <<"s", "u", "b">>)
GithubMd == MdFile(".github/setup.md", "setup.md", "setup", <<"h", "u", "b">>)
\* A file that is not UTF-8: read() raises UnicodeDecodeError.
BinaryMd == [MdFile("docs/binary.md", "binary.md", "binary", <<>>) EXCEPT !.readable = FALSE]

\* ".git" in str(doc_file), for the paths of the model.
HasDotGit(f) == f.path \in {".git/info.md", ".github/setup.md"}

\* A JSON report file.  `analysis` is the object under the report's key, a function
\* from the fields it has to their values: a text, a list of texts, or a list of
\* <<key, text>> pairs for a nested object.
Report(json_ok, has_key, analysis) ==
    [exists |-> TRUE, json_ok |-> json_ok, has_key |-> has_key, analysis |-> analysis]

NoFields == [f \in {} |-> <<>>]

NoReport == [exists |-> FALSE, json_ok |-> FALSE, has_key |-> FALSE, analysis |-> NoFields]

\* analysis.get(field, default)
Get(analysis, field, default) ==
    IF field \in DOMAIN analysis THEN analysis[field] ELSE default

RECURSIVE JoinWith(_, _)
\* sep.join(parts)
JoinWith(parts, sep) ==
    IF parts = <<>> THEN <<>>
    ELSE IF Len(parts) = 1 THEN parts[1]
    ELSE parts[1] \o sep \o JoinWith(Tail(parts), sep)

Quoted(t) == <<"\"">> \o t \o <<"\"">>

\* json.dumps(obj, indent=2) of an object of strings: "{}" for the empty one.
JsonDumps(pairs) ==
    IF pairs = <<>> THEN <<"{", "}">>
    ELSE <<"{", NL>>
         \o JoinWith([i \in 1..Len(pairs) |->
                        <<" ", " ">> \o Quoted(pairs[i][1]) \o <<":", " ">>
                            \o Quoted(pairs[i][2])],
                     <<",", NL>>)
         \o <<NL, "}">>

\* "\n".join([f"- {x}" for x in items])
Bulleted(items) ==
    JoinWith([i \in 1..Len(items) |-> <<"-", " ">> \o items[i]], <<NL>>)

\* The `sections` dict of an analysis report (lines 168-178), in insertion order.
AnalysisSections(analysis) ==
    << <<"repository_type", Get(analysis, "repository_type", <<>>)>>,
       <<"primary_purpose", Get(analysis, "primary_purpose", <<>>)>>,
       <<"technology_stack", JoinWith(Get(analysis, "technology_stack", <<>>), <<",", " ">>)>>,
       <<"code_quality", JsonDumps(Get(analysis, "code_quality_assessment", <<>>))>>,
       <<"security_analysis", JsonDumps(Get(analysis, "security_analysis", <<>>))>>,
       <<"recommendations", Bulleted(Get(analysis, "recommendations", <<>>))>>,
       <<"complexity_score", Get(analysis, "complexity_score", <<>>)>>,
       <<"maintainability_score", Get(analysis, "maintainability_score", <<>>)>>,
       <<"scalability_potential", Get(analysis, "scalability_potential", <<>>)>> >>

\* The `sections` dict of the comparison report's summary (lines 262-267).
SummarySections(summary) ==
    << <<"overall_agreement", JsonDumps(Get(summary, "overall_agreement", <<>>))>>,
       <<"key_differences", Bulleted(Get(summary, "key_differences", <<>>))>>,
       <<"key_agreements", Bulleted(Get(summary, "key_agreements", <<>>))>>,
       <<"conclusion", Get(summary, "conclusion", <<>>)>> >>

(***************************************************************************)
(* The records the ingestion makes, in the order it makes them.  An item   *)
(* is the record with the flag of the README branch (line 109).            *)
(***************************************************************************)
\* Lines 85-103: the chunks of README.md.
ReadmeItems(tree) ==
    IF ~tree.readme.exists THEN <<>>
    ELSE LET chunks == ChunkText(tree.readme.text, DocChunkSize, DocOverlap)
         IN  [i \in 1..Len(chunks) |->
                [readme |-> TRUE,
                 record |-> [id |-> <<"readme", IntStr(i - 1)>>,
                             content |-> chunks[i],
                             source |-> "README.md",
                             metadata |-> [type |-> "documentation", file |-> "README.md"]]]]

\* Lines 125-142: the chunks of one other markdown file.
MdFileItems(f) ==
    LET chunks == ChunkText(f.text, DocChunkSize, DocOverlap)
    IN  [i \in 1..Len(chunks) |->
           [readme |-> FALSE,
            record |-> [id |-> <<f.stem, IntStr(i - 1)>>,
                        content |-> chunks[i],
                        source |-> f.path,
                        metadata |-> [type |-> "documentation", file |-> f.path]]]]

\* Lines 117-122: the files the loop does not skip.
Ingested(f) == f.name # "README.md" /\ ~HasDotGit(f)

RECURSIVE MdItems(_)
MdItems(files) ==
    IF files = <<>> THEN <<>>
    ELSE (IF Ingested(Head(files)) /\ Head(files).readable
          THEN MdFileItems(Head(files))
          ELSE <<>>)
         \o MdItems(Tail(files))

\* Lines 181-193, 228-240, 270-281: one record for each section whose content is
\* not empty.
SectionItems(sections, prefix, source, metadata) ==
    LET kept == SelectSeq(sections, LAMBDA sec : sec[2] # <<>>)
    IN  [i \in 1..Len(kept) |->
           [readme |-> FALSE,
            record |-> [id |-> <<prefix, kept[i][1]>>,
                        content |-> kept[i][2],
                        source |-> source,
                        metadata |-> [metadata EXCEPT !.section = kept[i][1]]]]]

\* Variant: the sections are read whether or not the report file is there.
ReportItemsOfAnyFile(report, sections, prefix, source, metadata) ==
    SectionItems(sections, prefix, source, metadata)

\* A report that is missing, is not JSON, or lacks its key gives no record.
ReportItems(report, sections, prefix, source, metadata) ==
    IF report.exists /\ report.json_ok /\ report.has_key
    THEN SectionItems(sections, prefix, source, metadata)
    ELSE <<>>

IngestItems(tree) ==
    ReadmeItems(tree)
    \o MdItems(tree.md)
    \o ReportItems(tree.mistral, AnalysisSections(tree.mistral.analysis), "mistral",
                   "Mistral Analysis",
                   [type |-> "analysis", tool |-> "mistral", section |-> ""])
    \o ReportItems(tree.openai, AnalysisSections(tree.openai.analysis), "openai",
                   "OpenAI Analysis",
                   [type |-> "analysis", tool |-> "openai", section |-> ""])
    \o ReportItems(tree.comparison, SummarySections(tree.comparison.analysis), "comparison",
                   "Comparison Analysis",
                   [type |-> "comparison", section |-> ""])

\* What the provider answers to the embedding request of a chunk it fails.
FailingScript == <<"timeout", "timeout", "ok">>

(***************************************************************************)
(* One record of the ingestion (lines 95-113 and their four copies): the   *)
(* record is stored; with a client, its text is embedded and the vector,   *)
(* if there is one, is added to the index.  `log` lists the embedding      *)
(* calls of the run.                                                       *)
(***************************************************************************)
ProcessItem(st, item, client, ok) ==
    LET docs == Put(st.documents, item.record)
        e == GetEmbedding(client, item.record.content,
                          IF ok THEN <<"ok">> ELSE FailingScript, 0)
    IN  IF ~client THEN [st EXCEPT !.documents = docs]
        ELSE IF e.none
             THEN [documents |-> docs, index |-> st.index,
                   log |-> Append(st.log, [id |-> item.record.id, ok |-> FALSE])]
             ELSE [documents |-> docs,
                   index |-> IndexAdd(IF item.readme /\ Len(docs) = 1
                                      THEN IndexFlatL2(e.vec.d)
                                      ELSE st.index,
                                      e.vec),
                   log |-> Append(st.log, [id |-> item.record.id, ok |-> TRUE])]

RECURSIVE IngestFrom(_, _, _, _, _)
\* Items n, n+1, ... in order; `failed` are the items whose embedding call raises.
IngestFrom(st, items, n, failed, client) ==
    IF n > Len(items) THEN st
    ELSE IngestFrom(ProcessItem(st, items[n], client, n \notin failed),
                    items, n + 1, failed, client)

(***************************************************************************)
(* save() and load().                                                      *)
(***************************************************************************)
\* `corrupt` is whether the bytes of the file cannot be parsed.
NoVectorFile == [exists |-> FALSE, corrupt |-> FALSE, index |-> NoIndex]
NoDocumentFile == [exists |-> FALSE, corrupt |-> FALSE, docs |-> <<>>]

\* Variant: an index file that is already there is not overwritten.
SavedVectorFileKeepsOld(ix, file) ==
    IF file.exists \/ ~ix.present THEN file
    ELSE [exists |-> TRUE, corrupt |-> FALSE, index |-> ix]

\* Lines 362-363: the index file is written only if there is an index.
SavedVectorFile(ix, file) ==
    IF ix.present THEN [exists |-> TRUE, corrupt |-> FALSE, index |-> ix] ELSE file

\* Lines 366-367: json.dump keeps the keys in insertion order.
SavedDocumentFile(docs) == [exists |-> TRUE, corrupt |-> FALSE, docs |-> docs]

\* Lines 374-375.
LoadedIndex(ix, file) == IF file.exists THEN file.index ELSE ix

\* Variant: load() leaves the mapping in memory as it is.
LoadedDocumentsKeepsMemory(docs, file) == docs

\* Lines 378-380.
LoadedDocuments(docs, file) == IF file.exists THEN file.docs ELSE docs

\* Variant: load() skips a file it cannot parse.
LoadedSkippingCorrupt(ix, docs, vfile, dfile) ==
    [raised |-> FALSE,
     index |-> IF vfile.corrupt THEN ix ELSE LoadedIndex(ix, vfile),
     documents |-> IF dfile.corrupt THEN docs ELSE LoadedDocuments(docs, dfile)]

\* Lines 369-380: load() has no handler.  read_index raises on a corrupt index
\* file before anything is assigned; json.load raises on a corrupt store after
\* the index was assigned.
Loaded(ix, docs, vfile, dfile) ==
    IF vfile.exists /\ vfile.corrupt
    THEN [raised |-> TRUE, index |-> ix, documents |-> docs]
    ELSE IF dfile.exists /\ dfile.corrupt
         THEN [raised |-> TRUE, index |-> LoadedIndex(ix, vfile), documents |-> docs]
         ELSE [raised |-> FALSE, index |-> LoadedIndex(ix, vfile),
               documents |-> LoadedDocuments(docs, dfile)]

(***************************************************************************)
(* What a call returns.  Every call leaves one record of the same shape in *)
(* `ret`; the fields a call does not use keep the values of NoReturn.      *)
(***************************************************************************)
NoEmbedding == [none |-> TRUE, vec |-> NoVector, calls |-> 0]

NoReturn ==
    [op |-> "none", raised |-> FALSE, loaded |-> FALSE, log |-> <<>>,
     answer |-> "", sources |-> <<>>, text |-> <<>>, top_k |-> 0, script |-> <<>>,
     value |-> NoEmbedding, embed_calls |-> 0, searches |-> 0, chat_attempts |-> 0,
     found |-> <<>>, retrieved |-> <<>>, success |-> FALSE, tool |-> [name |-> "none"]]

(***************************************************************************)
(* initialize(force).                                                      *)
(***************************************************************************)
MaxFailures == 1

\* The sets of items whose embedding call fails in one run: a few, or all.
FailureSets(n) ==
    {F \in SUBSET (1..n) : Cardinality(F) <= MaxFailures \/ F = 1..n}

\* Line 57: the persisted state is loaded instead of rebuilt.
LoadsExisting(force) ==
    vector_store_file.exists /\ document_store_file.exists /\ ~force

\* Variant: the rebuild ingests into the index and the mapping already in memory.
RebuiltOnExisting(tree, failed, client) ==
    IngestFrom([index |-> IF index.present THEN index ELSE IndexFlatL2(EMBEDDING_DIMENSION),
                documents |-> documents, log |-> <<>>],
               IngestItems(tree), 1, failed, client)

\* Lines 62-72: the rebuilt index and mapping.
Rebuilt(tree, failed, client) ==
    IngestFrom([index |-> IndexFlatL2(EMBEDDING_DIMENSION), documents |-> <<>>, log |-> <<>>],
               IngestItems(tree), 1, failed, client)

\* Lines 85-87: open() and read() of README.md are outside every handler.
ReadmeRaises(tree) == tree.readme.exists /\ ~tree.readme.readable

Initialize(force, failed) ==
    /\ IF LoadsExisting(force)
       THEN LET ld == Loaded(index, documents, vector_store_file, document_store_file)
            IN  /\ failed = {}
                /\ index' = ld.index
                /\ documents' = ld.documents
                /\ UNCHANGED <<vector_store_file, document_store_file>>
                /\ ret' = [NoReturn EXCEPT !.op = "initialize", !.loaded = TRUE,
                                           !.raised = ld.raised, !.success = ~ld.raised]
       ELSE IF ReadmeRaises(corpus)
            THEN /\ failed = {}
                 /\ index' = IndexFlatL2(EMBEDDING_DIMENSION)
                 /\ documents' = <<>>
                 /\ UNCHANGED <<vector_store_file, document_store_file>>
                 /\ ret' = [NoReturn EXCEPT !.op = "initialize", !.raised = TRUE]
            ELSE LET st == Rebuilt(corpus, failed, openai_client)
                 IN  /\ (~openai_client => failed = {})
                     /\ index' = st.index
                     /\ documents' = st.documents
                     /\ vector_store_file' = SavedVectorFile(st.index, vector_store_file)
                     /\ document_store_file' = SavedDocumentFile(st.documents)
                     /\ ret' = [NoReturn EXCEPT !.op = "initialize", !.log = st.log,
                                                !.embed_calls = Len(st.log),
                                                !.success = TRUE]
    /\ UNCHANGED <<chunker, openai_client, corpus>>

\* initialize_rag_system(force): initialize() on a new RAGSystem(), every
\* exception turned into the result False.  The object is dropped on return.
InitializeRagSystem(force, failed) ==
    /\ IF vector_store_file.exists /\ document_store_file.exists /\ ~force
       THEN LET ld == Loaded(NoIndex, <<>>, vector_store_file, document_store_file)
            IN  /\ failed = {}
                /\ UNCHANGED <<vector_store_file, document_store_file>>
                /\ ret' = [NoReturn EXCEPT !.op = "initialize_rag_system",
                                           !.loaded = TRUE, !.success = ~ld.raised]
       ELSE IF ReadmeRaises(corpus)
            THEN /\ failed = {}
                 /\ UNCHANGED <<vector_store_file, document_store_file>>
                 /\ ret' = [NoReturn EXCEPT !.op = "initialize_rag_system"]
            ELSE LET st == Rebuilt(corpus, failed, openai_client)
                 IN  /\ (~openai_client => failed = {})
                     /\ vector_store_file' = SavedVectorFile(st.index, vector_store_file)
                     /\ document_store_file' = SavedDocumentFile(st.documents)
                     /\ ret' = [NoReturn EXCEPT !.op = "initialize_rag_system",
                                                !.log = st.log,
                                                !.embed_calls = Len(st.log),
                                                !.success = TRUE]
    /\ UNCHANGED <<chunker, openai_client, corpus, index, documents>>

\* RAGSystem(): a new object beside the persisted files.
Construct ==
    /\ index' = NoIndex
    /\ documents' = <<>>
    /\ ret' = [NoReturn EXCEPT !.op = "construct"]
    /\ UNCHANGED <<chunker, openai_client, corpus, vector_store_file, document_store_file>>

Load ==
    /\ LET ld == Loaded(index, documents, vector_store_file, document_store_file)
       IN  /\ index' = ld.index
           /\ documents' = ld.documents
           /\ ret' = [NoReturn EXCEPT !.op = "load", !.raised = ld.raised]
    /\ UNCHANGED <<chunker, openai_client, corpus, vector_store_file, document_store_file>>

Save ==
    /\ vector_store_file' = SavedVectorFile(index, vector_store_file)
    /\ document_store_file' = SavedDocumentFile(documents)
    /\ ret' = [NoReturn EXCEPT !.op = "save"]
    /\ UNCHANGED <<chunker, openai_client, corpus, index, documents>>

(***************************************************************************)
(* index.search(q, k) of faiss.  Positions count from 1 here (faiss counts *)
(* from 0).  The k nearest vectors come by ascending distance, the lower   *)
(* position first among equals.  The wrapper asserts the dimension; a      *)
(* negative k cannot size the result arrays; k = 0 is refused by the       *)
(* builds that assert k > 0 and answered with no result by the others.     *)
(***************************************************************************)
Distance(q, v) == (q.x - v.x) * (q.x - v.x)

RECURSIVE NearestFrom(_, _, _, _)
NearestFrom(ix, q, k, remaining) ==
    IF k = 0 \/ remaining = {} THEN <<>>
    ELSE LET best == {p \in remaining :
                        \A r \in remaining : Distance(q, ix.xb[p]) <= Distance(q, ix.xb[r])}
             p == Min(best)
         IN  <<p>> \o NearestFrom(ix, q, k - 1, remaining \ {p})

IndexSearch(ix, q, k) ==
    IF q.d # ix.d \/ k < 0
    THEN {[raised |-> TRUE, positions |-> <<>>]}
    ELSE IF k = 0
         THEN {[raised |-> TRUE, positions |-> <<>>], [raised |-> FALSE, positions |-> <<>>]}
         ELSE {[raised |-> FALSE, positions |-> NearestFrom(ix, q, k, 1..Len(ix.xb))]}

(***************************************************************************)
(* query(question, top_k).                                                 *)
(***************************************************************************)
\* The scripts the provider plays in the model.
EmbeddingScripts == {<<"ok">>, <<"timeout", "timeout", "ok">>, <<"bad_request">>}

ChatScripts ==
    {<<"ok">>, <<"timeout", "timeout", "ok">>, <<"rate_limit">>, <<"bad_request">>,
     <<"connection", "connection", "connection", "connection", "ok">>}

AnswerNoClient == "OpenAI client not available. Please set OPENAI_API_KEY environment variable."
AnswerNotInitialized == "RAG system not initialized. Please run initialize() first."
AnswerEmbedFailed == "Failed to generate embedding for the question."
AnswerChatFailed == "Error generating answer: <exception>"
\* response.choices[0].message.content
AnswerOfModel == "<answer of the chat model>"

Min2(a, b) == IF a <= b THEN a ELSE b

\* Lines 422-436: the documents at the positions found, by position among the keys.
Retrieved(docs, positions) ==
    LET kept == SelectSeq(positions, LAMBDA p : p >= 1 /\ p <= Len(docs))
    IN  [i \in 1..Len(kept) |-> docs[kept[i]]]

RECURSIVE SourcesOfEvery(_, _)
\* Variant: one entry for every retrieved document.
SourcesOfEvery(retrieved, sources) ==
    IF retrieved = <<>> THEN sources
    ELSE SourcesOfEvery(Tail(retrieved),
                        Append(sources, [source |-> Head(retrieved).source,
                                         metadata |-> Head(retrieved).metadata]))

RECURSIVE SourcesOf(_, _)
\* Lines 468-475: source and metadata of each document, once.
SourcesOf(retrieved, sources) ==
    IF retrieved = <<>> THEN sources
    ELSE LET info == [source |-> Head(retrieved).source,
                      metadata |-> Head(retrieved).metadata]
         IN  SourcesOf(Tail(retrieved),
                       IF \E i \in 1..Len(sources) : sources[i] = info
                       THEN sources ELSE Append(sources, info))

\* Variant: a question asked twice in a row is answered from the previous result.
QueryReturnFromCache(question, top_k, answer, sources, embed_calls, searches, chat_attempts) ==
    IF ret.op = "query" /\ ret.text = question /\ ret.top_k = top_k
    THEN [ret EXCEPT !.embed_calls = 0, !.searches = 0, !.chat_attempts = 0]
    ELSE [NoReturn EXCEPT !.op = "query", !.text = question, !.top_k = top_k,
                          !.answer = answer, !.sources = sources,
                          !.embed_calls = embed_calls, !.searches = searches,
                          !.chat_attempts = chat_attempts]

\* Lines 396-399, 402-405, 410-413, 477-486: the dict query returns.
QueryReturn(question, top_k, answer, sources, embed_calls, searches, chat_attempts) ==
    [NoReturn EXCEPT !.op = "query", !.text = question, !.top_k = top_k,
                     !.answer = answer, !.sources = sources,
                     !.embed_calls = embed_calls, !.searches = searches,
                     !.chat_attempts = chat_attempts]

\* Lines 416-486: from the search on.
AfterSearch(question, top_k, found, chat_script) ==
    IF found.raised
    THEN [QueryReturn(question, top_k, "", <<>>, 1, 1, 0) EXCEPT !.raised = TRUE]
    ELSE LET chat == ChatCompletion(chat_script)
             retrieved_docs == Retrieved(documents, found.positions)
             answered ==
                 IF chat.raised
                 THEN QueryReturn(question, top_k, AnswerChatFailed, <<>>, 1, 1,
                                  chat.attempts)
                 ELSE QueryReturn(question, top_k, AnswerOfModel,
                                  SourcesOf(retrieved_docs, <<>>), 1, 1, chat.attempts)
         IN  [answered EXCEPT !.found = found.positions, !.retrieved = retrieved_docs]

\* Variant: a question that could not be embedded is searched and answered all
\* the same, with nothing retrieved.
EmbedFailedGoesOn(question, top_k, e) ==
    [AfterSearch(question, top_k, [raised |-> FALSE, positions |-> <<>>], <<"ok">>)
        EXCEPT !.value = e]

\* Lines 409-413: the return when _get_embedding gave None.
EmbedFailedReturn(question, top_k, e) ==
    [QueryReturn(question, top_k, AnswerEmbedFailed, <<>>, 1, 0, 0) EXCEPT !.value = e]

Query(question, top_k) ==
    /\ IF ~openai_client
       THEN ret' = QueryReturn(question, top_k, AnswerNoClient, <<>>, 0, 0, 0)
       ELSE IF ~index.present \/ documents = <<>>
       THEN ret' = QueryReturn(question, top_k, AnswerNotInitialized, <<>>, 0, 0, 0)
       ELSE \E emb_script \in EmbeddingScripts :
            LET e == GetEmbedding(openai_client, question, emb_script, 0)
            IN  IF e.none
                THEN ret' = EmbedFailedReturn(question, top_k, e)
                ELSE \E found \in IndexSearch(index, e.vec, Min2(top_k, Len(index.xb))),
                        chat_script \in ChatScripts :
                        ret' = [AfterSearch(question, top_k, found, chat_script)
                                   EXCEPT !.value = e]
    /\ UNCHANGED <<chunker, openai_client, corpus, index, documents,
                   vector_store_file, document_store_file>>

\* A call of _get_embedding on its own.
GetEmbeddingCall(text, script, r) ==
    /\ ret' = [NoReturn EXCEPT !.op = "get_embedding", !.text = text, !.script = script,
                               !.value = GetEmbedding(openai_client, text, script, r),
                               !.embed_calls =
                                   GetEmbedding(openai_client, text, script, r).calls]
    /\ UNCHANGED <<chunker, openai_client, corpus, index, documents,
                   vector_store_file, document_store_file>>

\* save() on a system that has an index, then load() on a new RAGSystem(), which
\* takes the place of the first.
SaveThenLoadFresh ==
    /\ index.present
    /\ LET saved_index == SavedVectorFile(index, vector_store_file)
           saved_documents == SavedDocumentFile(documents)
       IN  /\ vector_store_file' = saved_index
           /\ document_store_file' = saved_documents
           /\ index' = Loaded(NoIndex, <<>>, saved_index, saved_documents).index
           /\ documents' = Loaded(NoIndex, <<>>, saved_index, saved_documents).documents
    /\ ret' = [NoReturn EXCEPT !.op = "save_load"]
    /\ UNCHANGED <<chunker, openai_client, corpus>>

\* The bytes of a persisted file are damaged from outside the program.
CorruptVectorFile ==
    /\ vector_store_file.exists
    /\ ~vector_store_file.corrupt
    /\ vector_store_file' = [exists |-> TRUE, corrupt |-> TRUE, index |-> NoIndex]
    /\ ret' = [NoReturn EXCEPT !.op = "corrupt"]
    /\ UNCHANGED <<chunker, openai_client, corpus, index, documents, document_store_file>>

CorruptDocumentFile ==
    /\ document_store_file.exists
    /\ ~document_store_file.corrupt
    /\ document_store_file' = [exists |-> TRUE, corrupt |-> TRUE, docs |-> <<>>]
    /\ ret' = [NoReturn EXCEPT !.op = "corrupt"]
    /\ UNCHANGED <<chunker, openai_client, corpus, index, documents, vector_store_file>>

\* The scripts of the calls of chat_completion on its own.
ChatCallScripts == ChatScripts \cup {<<"timeout", "bad_request">>}

\* A call of chat_completion on its own, by a caller that has a client.
ChatCompletionCall(script) ==
    /\ openai_client
    /\ ret' = [NoReturn EXCEPT !.op = "chat_completion", !.script = script,
                               !.raised = ChatCompletion(script).raised,
                               !.chat_attempts = ChatCompletion(script).attempts]
    /\ UNCHANGED <<chunker, openai_client, corpus, index, documents,
                   vector_store_file, document_store_file>>

(***************************************************************************)
(* The inputs.                                                             *)
(***************************************************************************)
\* `readable` is whether open() and read() of README.md succeed.
Readme(text) == [exists |-> TRUE, readable |-> TRUE, text |-> text]
NoReadme == [exists |-> FALSE, readable |-> FALSE, text |-> <<>>]
\* A README.md that is not UTF-8: read() raises UnicodeDecodeError.
BinaryReadme == [exists |-> TRUE, readable |-> FALSE, text |-> <<>>]

Tree(readme, md, mistral, openai, comparison) ==
    [readme |-> readme, md |-> md, mistral |-> mistral, openai |-> openai,
     comparison |-> comparison]

MistralReport == Report(TRUE, TRUE, [primary_purpose |-> <<"d", "e", "m", "o">>])

OpenaiReport ==
    Report(TRUE, TRUE,
           [technology_stack |-> << <<"p", "y">>, <<"j", "s">> >>,
            security_analysis |-> << << <<"k">>, <<"v">> >> >>,
            recommendations |-> << <<"t", "e", "s", "t">> >>])

EmptyAnalysisReport == Report(TRUE, TRUE, NoFields)
BadJsonReport == Report(FALSE, FALSE, NoFields)
NoKeyReport == Report(TRUE, FALSE, NoFields)

ComparisonReport == Report(TRUE, TRUE, [conclusion |-> <<"e", "n", "d">>])

Corpora ==
    { Tree(NoReadme, <<>>, NoReport, NoReport, NoReport),
      Tree(Readme(ShortReadme), <<>>, NoReport, NoReport, NoReport),
      Tree(Readme(LongReadme), <<GuideMd>>, NoReport, NoReport, NoReport),
      Tree(NoReadme, <<NotesMd, ApiNotesMd>>, NoReport, NoReport, NoReport),
      Tree(Readme(ShortReadme), <<LowerReadmeMd, GitMd, SubReadmeMd, GithubMd>>,
           NoReport, NoReport, NoReport),
      Tree(NoReadme, <<BinaryMd, GuideMd>>, BadJsonReport, OpenaiReport, NoReport),
      Tree(BinaryReadme, <<GuideMd>>, NoReport, NoReport, ComparisonReport),
      Tree(NoReadme, <<GuideMd>>, EmptyAnalysisReport, NoKeyReport, ComparisonReport),
      Tree(Readme(ShortReadme), <<>>, MistralReport, NoReport, ComparisonReport) }

Questions == {<<"w", "h", "y">>}

TopKs == {-1, 0, 2, 5}

RandomDraws == {1, 2}

Init ==
    /\ chunker = ChunkerIdle
    /\ openai_client \in BOOLEAN
    /\ index = NoIndex
    /\ documents = <<>>
    /\ vector_store_file = NoVectorFile
    /\ document_store_file = NoDocumentFile
    /\ corpus \in Corpora
    /\ ret = NoReturn

Next ==
    \/ \E force \in BOOLEAN, failed \in FailureSets(Len(IngestItems(corpus))) :
          Initialize(force, failed)
    \/ Construct
    \/ Load
    \/ Save
    \/ \E question \in Questions, top_k \in TopKs : Query(question, top_k)
    \/ \E text \in Questions, script \in EmbeddingScripts, r \in RandomDraws :
          GetEmbeddingCall(text, script, r)
    \/ \E script \in ChatCallScripts : ChatCompletionCall(script)
    \/ SaveThenLoadFresh

Spec == Init /\ [][Next]_vars

\* The system beside persisted files that can be damaged.
PersistedCorpora ==
    { Tree(Readme(ShortReadme), <<GuideMd>>, NoReport, NoReport, NoReport),
      Tree(BinaryReadme, <<GuideMd>>, NoReport, NoReport, ComparisonReport) }

InitPersisted ==
    /\ chunker = ChunkerIdle
    /\ openai_client \in BOOLEAN
    /\ index = NoIndex
    /\ documents = <<>>
    /\ vector_store_file = NoVectorFile
    /\ document_store_file = NoDocumentFile
    /\ corpus \in PersistedCorpora
    /\ ret = NoReturn

NextPersisted ==
    \/ Next
    \/ CorruptVectorFile
    \/ CorruptDocumentFile
    \/ \E force \in BOOLEAN, failed \in FailureSets(Len(IngestItems(corpus))) :
          InitializeRagSystem(force, failed)

SpecPersisted == InitPersisted /\ [][NextPersisted]_vars

\* The system built with a provider key in the environment.
InitConfigured == Init /\ openai_client

SpecConfigured == InitConfigured /\ [][Next]_vars

(***************************************************************************)
(* OpenAIClient.count_tokens and OpenAIClient.chunk_text.                  *)
(***************************************************************************)
Space == " "

RECURSIVE SplitWordsFrom(_, _, _)
\* text.split(): the maximal runs of characters that are not whitespace.
SplitWordsFrom(text, i, word) ==
    IF i > Len(text)
    THEN (IF word = <<>> THEN <<>> ELSE <<word>>)
    ELSE IF text[i] = Space
         THEN (IF word = <<>> THEN <<>> ELSE <<word>>) \o SplitWordsFrom(text, i + 1, <<>>)
         ELSE SplitWordsFrom(text, i + 1, Append(word, text[i]))

SplitWords(text) == SplitWordsFrom(text, 1, <<>>)

\* len(text) // 4
CountTokens(text) == Len(text) \div 4

RECURSIVE ClientChunkLoop(_, _, _, _, _)
\* The loop over the words and the flush after it.
ClientChunkLoop(words, max_chunk_tokens, chunks, current_chunk, current_token_count) ==
    IF words = <<>>
    THEN IF current_chunk # <<>>
         THEN Append(chunks, JoinWith(current_chunk, <<Space>>))
         ELSE chunks
    ELSE LET word == Head(words)
             word_token_count == CountTokens(word)
         IN  IF current_token_count + word_token_count > max_chunk_tokens
             THEN ClientChunkLoop(Tail(words), max_chunk_tokens,
                                  Append(chunks, JoinWith(current_chunk, <<Space>>)),
                                  <<word>>, word_token_count)
             ELSE ClientChunkLoop(Tail(words), max_chunk_tokens, chunks,
                                  Append(current_chunk, word),
                                  current_token_count + word_token_count)

ClientChunkText(text, max_chunk_tokens) ==
    ClientChunkLoop(SplitWords(text), max_chunk_tokens, <<>>, <<>>, 0)

MaxTextLen == 8
DefaultMaxChunkTokens == 4000

\* The texts of letters and spaces of the model, and the limits of a chunk.
ClientTexts == UNION { [1..n -> {"a", Space}] : n \in 0..MaxTextLen }
TokenLimits == {1, 2, DefaultMaxChunkTokens}

\* One run of test_openai_integration.py: a client, and one call of chunk_text.
ChunkTextCall(text, max_chunk_tokens) ==
    /\ ret.op = "none"
    /\ openai_client
    /\ ret' = [NoReturn EXCEPT !.op = "chunk_text",
                               !.tool = [name |-> "chunk_text", text |-> text,
                                         max_chunk_tokens |-> max_chunk_tokens,
                                         chunks |-> ClientChunkText(text, max_chunk_tokens)]]
    /\ UNCHANGED <<chunker, openai_client, corpus, index, documents,
                   vector_store_file, document_store_file>>

(***************************************************************************)
(* OpenAIRepositoryAnalyzer.analyze_with_openai (analyze_openai.py).       *)
(***************************************************************************)
\* The dict _simulate_analysis returns, and the dict parsed from a response.
SimulatedAnalysis == "simulated analysis"
ParsedAnalysis == "analysis of the provider"

\* The prompt (lines 192-244) is an f-string that holds the JSON template in
\* single braces, three levels deep.  An interpreter before 3.12 rejects the
\* module when it compiles it ("f-string: expressions nested too deeply"); from
\* 3.12 on the braces are replacement fields whose format specifier is not one
\* of str, and evaluating the prompt raises ValueError.
Builds == {"before_3_12", "from_3_12"}
ModuleCompiles(build) == build = "from_3_12"
PromptRaises(build) == build = "from_3_12"

\* Lines 26-31 and 173-264.  The prompt is built before the try of line 246.
AnalyzeWithOpenai(build, client, script, parse_ok) ==
    IF ~ModuleCompiles(build)
    THEN [raised |-> TRUE, error |-> "SyntaxError", analysis |-> "none"]
    ELSE IF ~client
    THEN [raised |-> FALSE, error |-> "none", analysis |-> SimulatedAnalysis]
    ELSE IF PromptRaises(build)
    THEN [raised |-> TRUE, error |-> "ValueError", analysis |-> "none"]
    ELSE IF ChatCompletion(script).raised \/ ~parse_ok
    THEN [raised |-> FALSE, error |-> "none", analysis |-> SimulatedAnalysis]
    ELSE [raised |-> FALSE, error |-> "none", analysis |-> ParsedAnalysis]

\* One run of analyze_openai.py.
AnalyzeCall(build, script, parse_ok) ==
    /\ ret.op = "none"
    /\ LET r == AnalyzeWithOpenai(build, openai_client, script, parse_ok)
       IN  ret' = [NoReturn EXCEPT !.op = "analyze_with_openai", !.raised = r.raised,
                                   !.script = script,
                                   !.tool = [name |-> "analyze_with_openai",
                                             build |-> build, parse_ok |-> parse_ok,
                                             error |-> r.error, analysis |-> r.analysis]]
    /\ UNCHANGED <<chunker, openai_client, corpus, index, documents,
                   vector_store_file, document_store_file>>

(***************************************************************************)
(* AnalysisComparator (compare_analysis.py), for the reports of Mistral    *)
(* and OpenAI.  Lists made from sets are sets here.                        *)
(***************************************************************************)
Metrics == <<"complexity", "maintainability", "scalability">>

Abs(n) == IF n < 0 THEN -n ELSE n

\* Lines 269-270: a score that is a number already.
ExtractScore(score) == score

\* Lines 229-235: the scores of one analysis.
ScoresOf(analysis) ==
    [complexity |-> ExtractScore(analysis.complexity_score),
     maintainability |-> ExtractScore(analysis.maintainability_score),
     scalability |-> ExtractScore(analysis.scalability_potential)]

\* Lines 129-150: comparison_results["technology_stack"].
TechnologyStackOf(mistral, openai) ==
    [mistral |-> mistral.technology_stack,
     openai |-> openai.technology_stack,
     common |-> mistral.technology_stack \cap openai.technology_stack,
     mistral_unique |-> mistral.technology_stack \ openai.technology_stack,
     openai_unique |-> openai.technology_stack \ mistral.technology_stack]

\* Lines 228-247: comparison_results["scores"].
ScoresComparison(mistral, openai) ==
    [mistral |-> ScoresOf(mistral),
     openai |-> ScoresOf(openai),
     mistral_openai_difference |->
         [complexity |-> Abs(ScoresOf(mistral).complexity - ScoresOf(openai).complexity),
          maintainability |->
              Abs(ScoresOf(mistral).maintainability - ScoresOf(openai).maintainability),
          scalability |-> Abs(ScoresOf(mistral).scalability - ScoresOf(openai).scalability)]]

\* Lines 204-208: comparison_results["recommendations"].
RecommendationsOf(mistral, openai) ==
    [mistral |-> mistral.recommendations, openai |-> openai.recommendations]

CompareAnalyses(mistral, openai) ==
    [technology_stack |-> TechnologyStackOf(mistral, openai),
     scores |-> ScoresComparison(mistral, openai),
     recommendations |-> RecommendationsOf(mistral, openai)]

Difference(kind, about) == [kind |-> kind, about |-> about]
NoDifferences == Difference("none", "")

\* set(list)
SetOf(list) == {list[i] : i \in 1..Len(list)}

\* _identify_key_differences: the keys it reads are "mistral_only", "openai_only"
\* and "difference".
IdentifyKeyDifferences(results) ==
    LET mistral_only == Get(results.technology_stack, "mistral_only", {})
        openai_only == Get(results.technology_stack, "openai_only", {})
        score_diff == Get(results.scores, "difference", <<>>)
        scored == SelectSeq(Metrics,
                            LAMBDA metric : metric \in DOMAIN score_diff
                                            /\ score_diff[metric] >= 3)
        mistral_recs == SetOf(Get(results.recommendations, "mistral", <<>>))
        openai_recs == SetOf(Get(results.recommendations, "openai", <<>>))
        differences ==
            (IF mistral_only # {} THEN <<Difference("mistral_only", "")>> ELSE <<>>)
            \o (IF openai_only # {} THEN <<Difference("openai_only", "")>> ELSE <<>>)
            \o [i \in 1..Len(scored) |-> Difference("score", scored[i])]
            \o (IF Cardinality(mistral_recs) # Cardinality(openai_recs)
                THEN <<Difference("recommendations", "")>> ELSE <<>>)
    IN  IF differences = <<>> THEN <<NoDifferences>> ELSE differences

\* The analyses of the model.
Technologies == {"python", "flask"}
ScoreValues == {5, 8}
RecommendationLists == {<<>>, <<"test">>}

Analyses ==
    [technology_stack : SUBSET Technologies,
     recommendations : RecommendationLists,
     complexity_score : ScoreValues,
     maintainability_score : ScoreValues,
     scalability_potential : {5}]

\* One run of compare_analysis.py: compare_analyses() and
\* generate_comparison_report() on two reports.
CompareCall(mistral, openai) ==
    /\ ret.op = "none"
    /\ ret' = [NoReturn EXCEPT !.op = "compare",
                               !.tool = [name |-> "compare", mistral |-> mistral,
                                         openai |-> openai,
                                         key_differences |->
                                             IdentifyKeyDifferences(
                                                 CompareAnalyses(mistral, openai))]]
    /\ UNCHANGED <<chunker, openai_client, corpus, index, documents,
                   vector_store_file, document_store_file>>

(***************************************************************************)
(* The tools beside the RAG system.                                        *)
(***************************************************************************)
InitTools ==
    /\ chunker = ChunkerIdle
    /\ openai_client \in BOOLEAN
    /\ index = NoIndex
    /\ documents = <<>>
    /\ vector_store_file = NoVectorFile
    /\ document_store_file = NoDocumentFile
    /\ corpus = Tree(NoReadme, <<>>, NoReport, NoReport, NoReport)
    /\ ret = NoReturn

NextTools ==
    \/ \E text \in ClientTexts, max_chunk_tokens \in TokenLimits :
          ChunkTextCall(text, max_chunk_tokens)
    \/ \E build \in Builds, script \in ChatCallScripts, parse_ok \in BOOLEAN :
          AnalyzeCall(build, script, parse_ok)
    \/ \E mistral \in Analyses, openai \in Analyses : CompareCall(mistral, openai)

SpecTools == InitTools /\ [][NextTools]_vars

(***************************************************************************)
(* Properties of _chunk_text, checked under SpecChunk.                     *)
(***************************************************************************)
\* The step taken is a split: the loop emitted current_chunk for the paragraph at pos.
EmitsChunk ==
    /\ chunker.pc = "loop"
    /\ chunker'.pc = "loop"
    /\ chunker'.pos = chunker.pos + 1
    /\ Len(chunker'.chunks) = Len(chunker.chunks) + 1

\* C7: every chunk returned by _chunk_text has length at most chunk_size.
C7_ChunkWithinSize ==
    chunker.pc = "done" =>
        \A k \in 1..Len(chunker.chunks) : Len(chunker.chunks[k]) <= chunker.chunk_size

C9_ShortChunkCarriedWhole ==
    [][(EmitsChunk /\ Len(chunker.current_chunk) < chunker.overlap) =>
          /\ IsPrefix(chunker.current_chunk, chunker'.current_chunk)
          /\ Len(chunker'.current_chunk) >=
                Len(chunker.current_chunk) + Len(chunker.paragraphs[chunker.pos])]_vars

\* C9 as amended: after emitting a chunk shorter than `overlap`, the next buffer
\* is exactly the paragraph that triggered the split.
C9_ShortChunkNotCarried ==
    [][(EmitsChunk /\ Len(chunker.current_chunk) < chunker.overlap) =>
          chunker'.current_chunk = chunker.paragraphs[chunker.pos]]_vars

\* C9 witness: the loop has just emitted a chunk shorter than `overlap` for a
\* non-empty paragraph, which is now the buffer.
C9_Witness ==
    /\ chunker.pc = "loop"
    /\ chunker.pos > 1
    /\ chunker.chunks # <<>>
    /\ Len(chunker.chunks[Len(chunker.chunks)]) < chunker.overlap
    /\ chunker.current_chunk = chunker.paragraphs[chunker.pos - 1]
    /\ chunker.current_chunk # <<>>

\* The length of the prefix a split injects into the chunk that follows `previous`.
InjectedLen(previous, overlap) ==
    IF Len(previous) > overlap
    THEN Len(PySuffix(previous, overlap)) + Len(ParagraphSep)
    ELSE 0

\* The chunks without their injected prefixes.
Stripped(chunks, overlap) ==
    [k \in 1..Len(chunks) |->
        IF k = 1 THEN chunks[1]
        ELSE SubSeq(chunks[k], InjectedLen(chunks[k - 1], overlap) + 1, Len(chunks[k]))]

Reconstructed(chunks, overlap) == Join(Stripped(chunks, overlap))

NonEmptyOnly(seq) == SelectSeq(seq, LAMBDA p : p # <<>>)

\* The least position >= from at which p occurs in t, or 0.
FindFrom(t, p, from) ==
    LET hits == {j \in from..(Len(t) - Len(p) + 1) : SubSeq(t, j, j + Len(p) - 1) = p}
    IN  IF hits = {} THEN 0 ELSE Min(hits)

RECURSIVE ContainsInOrder(_, _, _)
\* t holds the texts of ps one after the other, without overlap, from `from` on.
ContainsInOrder(t, ps, from) ==
    IF ps = <<>> THEN TRUE
    ELSE LET j == FindFrom(t, Head(ps), from)
         IN  j # 0 /\ ContainsInOrder(t, Tail(ps), j + Len(Head(ps)))

\* C10: the chunks, stripped of their injected prefixes and joined with "\n\n",
\* hold every paragraph of the input in order: the paragraphs of the joined text
\* that are not empty are those of the input, and the text of every input
\* paragraph occurs in it in the input's order.
C10_Reconstructs ==
    chunker.pc = "done" =>
        LET r == Reconstructed(chunker.chunks, chunker.overlap)
        IN  /\ NonEmptyOnly(Split(r)) = NonEmptyOnly(Split(chunker.text))
            /\ ContainsInOrder(r, Split(chunker.text), 1)

\* C10 witness: a finished call of three chunks or more, with an injected prefix.
C10_Witness ==
    /\ chunker.pc = "done"
    /\ Len(chunker.chunks) >= 3
    /\ \E k \in 2..Len(chunker.chunks) :
          InjectedLen(chunker.chunks[k - 1], chunker.overlap) > 0

(***************************************************************************)
(* Properties of initialize(), query() and _get_embedding, checked under   *)
(* Spec and SpecConfigured.                                                *)
(***************************************************************************)
\* initialize() has just returned, having rebuilt the stores.
AfterRebuild == ret.op = "initialize" /\ ~ret.raised /\ ~ret.loaded

\* C1: after a run of initialize() the index and the document mapping have the
\* same number of entries and the Nth vector is the embedding of the content of
\* the Nth key.
C1_PositionallyAligned ==
    (ret.op = "initialize" /\ ~ret.raised) =>
        /\ index.present
        /\ Len(index.xb) = Len(documents)
        /\ \A n \in 1..Len(documents) :
              index.xb[n] = ProviderVector(documents[n].content)

\* The last embedding call of the run for the record's id succeeded.
EmbeddingSucceeded(id) ==
    \E i \in 1..Len(ret.log) :
        /\ ret.log[i].id = id
        /\ ret.log[i].ok
        /\ \A j \in (i + 1)..Len(ret.log) : ret.log[j].id # id

\* C2: after initialize() has ingested a corpus, the index holds as many vectors
\* as the document mapping has records whose embedding succeeded.
C2_VectorsMatchEmbeddedRecords ==
    AfterRebuild =>
        Len(index.xb) =
            Cardinality({n \in 1..Len(documents) : EmbeddingSucceeded(documents[n].id)})

\* C3: query returns an answer text and a list of sources, and does not raise.
C3_QueryNeverRaises ==
    ret.op = "query" => (~ret.raised /\ ret.answer # "")

\* C4: with a client, _get_embedding on a provider that times out twice and then
\* answers returns the vector of the third attempt; an embedding call fails
\* exactly when a chat call on the same provider answers would.
C4_EmbeddingRetried ==
    (ret.op = "get_embedding" /\ openai_client) =>
        /\ ret.script = <<"timeout", "timeout", "ok">> =>
              (~ret.value.none /\ ret.value.vec = ProviderVector(ret.text)
                 /\ ret.embed_calls = 3)
        /\ ret.value.none = ChatCompletion(ret.script).raised

\* C5: without a client _get_embedding returns a random vector of the default
\* dimension, and initialize() adds one vector to the index for every record it
\* makes.
C5_StubVectorsIndexed ==
    ~openai_client =>
        /\ ret.op = "get_embedding" =>
              (~ret.value.none /\ ret.value.vec.kind = "random"
                 /\ ret.value.vec.d = EMBEDDING_DIMENSION)
        /\ AfterRebuild => Len(index.xb) = Len(IngestItems(corpus))

\* C6: a query on a system whose index is missing or holds no vector, or whose
\* document mapping is empty, returns the "not initialized" answer with no
\* source and does not raise.
C6_NotInitializedAnswer ==
    (ret.op = "query" /\ (~index.present \/ index.xb = <<>> \/ documents = <<>>)) =>
        (~ret.raised /\ ret.answer = AnswerNotInitialized /\ ret.sources = <<>>)

(***************************************************************************)
(* More properties of _chunk_text, checked under SpecChunk.                *)
(***************************************************************************)
\* The example call has returned.
ExampleDone ==
    /\ chunker.pc = "done"
    /\ chunker.text = ExampleText
    /\ chunker.chunk_size = DocChunkSize
    /\ chunker.overlap = DocOverlap

\* C11 as claimed: paragraphs of 400, 500 and 400 characters with chunk_size 1000
\* and overlap 200 give two chunks, of 900 and of 600 characters.
C11_ExampleLengths ==
    ExampleDone =>
        /\ Len(chunker.chunks) = 2
        /\ Len(chunker.chunks[1]) = 900
        /\ Len(chunker.chunks[2]) = 600

\* C11 as amended: the two chunks are paragraphs 1 and 2 joined by the separator
\* (902 characters), and the last 200 characters of chunk 1, the separator and
\* paragraph 3 (602 characters).
C11_ExampleChunks ==
    ExampleDone =>
        LET first == ExampleParagraphs[1] \o ParagraphSep \o ExampleParagraphs[2]
        IN  /\ chunker.chunks =
                  <<first, LastChars(first, 200) \o ParagraphSep \o ExampleParagraphs[3]>>
            /\ Len(chunker.chunks[1]) = 902
            /\ Len(chunker.chunks[2]) = 602

\* C11 witness: the example call has returned its two chunks.
C11_Witness == ExampleDone /\ Len(chunker.chunks) = 2

\* C12: the empty text gives no chunk, and no chunk of any text is the empty
\* string.
C12_NoEmptyChunk ==
    chunker.pc = "done" =>
        /\ chunker.text = <<>> => chunker.chunks = <<>>
        /\ \A k \in 1..Len(chunker.chunks) : chunker.chunks[k] # <<>>

\* C12 witness: a finished call on a text that starts with an empty paragraph,
\* followed by a paragraph longer than chunk_size, and that gave chunks.
C12_Witness ==
    /\ chunker.pc = "done"
    /\ Len(chunker.paragraphs) >= 2
    /\ chunker.paragraphs[1] = <<>>
    /\ Len(chunker.paragraphs[2]) > chunker.chunk_size
    /\ chunker.chunks # <<>>

(***************************************************************************)
(* More properties of initialize(), query() and chat_completion, checked   *)
(* under Spec and SpecConfigured.                                          *)
(***************************************************************************)
\* C13: a rebuild stores one record for each chunk and section it ingests: no
\* two of them have the same id, so none overwrites another.
C13_OneRecordPerItem ==
    AfterRebuild =>
        LET items == IngestItems(corpus)
        IN  /\ \A i, j \in 1..Len(items) : items[i].record.id = items[j].record.id => i = j
            /\ Len(documents) = Len(items)

\* C14: initialize(force=False) with both persisted files present makes the
\* index and the mapping in memory those of the files, whatever was in memory,
\* makes no embedding call, ingests nothing and leaves both files as they are.
C14_LoadsVerbatim ==
    [][(vector_store_file.exists /\ document_store_file.exists /\ Initialize(FALSE, {})) =>
          /\ index' = vector_store_file.index
          /\ documents' = document_store_file.docs
          /\ UNCHANGED <<vector_store_file, document_store_file>>
          /\ ret'.loaded
          /\ ret'.embed_calls = 0
          /\ ret'.log = <<>>]_vars

\* C14 witness: initialize() has just loaded a persisted index with vectors and a
\* persisted mapping with records.
C14_Witness ==
    /\ ret.op = "initialize"
    /\ ret.loaded
    /\ index.present
    /\ index.xb # <<>>
    /\ documents # <<>>
    /\ index = vector_store_file.index
    /\ documents = document_store_file.docs

RECURSIVE VectorsOfRun(_, _)
\* The vectors of the embedding calls of a run that succeeded, in the order of the calls.
VectorsOfRun(items, log) ==
    IF items = <<>> \/ log = <<>> THEN <<>>
    ELSE (IF Head(log).ok THEN <<ProviderVector(Head(items).record.content)>> ELSE <<>>)
         \o VectorsOfRun(Tail(items), Tail(log))

\* Memory and both files hold what the run that has just returned produced.
ProducedByThisRun ==
    LET items == IngestItems(corpus)
    IN  /\ index = [present |-> TRUE, d |-> EMBEDDING_DIMENSION,
                    xb |-> VectorsOfRun(items, ret.log)]
        /\ \A n \in 1..Len(documents) :
              \E i \in 1..Len(items) : documents[n] = items[i].record
        /\ \A i \in 1..Len(items) :
              \E n \in 1..Len(documents) : documents[n].id = items[i].record.id
        /\ vector_store_file = [exists |-> TRUE, corrupt |-> FALSE, index |-> index]
        /\ document_store_file = [exists |-> TRUE, corrupt |-> FALSE, docs |-> documents]

\* C15: after a rebuild, memory and both files hold only vectors and records of
\* that run; and initialize(force=True) run again on the same tree, with the same
\* outcomes of the embedding calls, leaves the index, the mapping and both
\* files as the first run left them.  (Right after a rebuild both files exist,
\* so the next step that rebuilds is a call with force=True.)
C15_ForceRebuilds ==
    /\ [](AfterRebuild => ProducedByThisRun)
    /\ [][(AfterRebuild /\ ret'.op = "initialize" /\ ~ret'.loaded /\ ret'.log = ret.log) =>
             UNCHANGED <<index, documents, vector_store_file, document_store_file>>]_vars

\* C15 witness: a rebuild has just returned with vectors in the index, one
\* embedding call failed, and records in the mapping, all of them saved.
C15_Witness ==
    /\ AfterRebuild
    /\ index.xb # <<>>
    /\ \E i \in 1..Len(ret.log) : ~ret.log[i].ok
    /\ Len(documents) >= 2
    /\ vector_store_file.index = index
    /\ document_store_file.docs = documents

\* C16: whenever a step changes a persisted file, both files exist afterwards and
\* hold the index and the mapping of one and the same state of the system.
C16_FilesFromOneRun ==
    [][<<vector_store_file, document_store_file>>' # <<vector_store_file, document_store_file>> =>
          /\ vector_store_file' = [exists |-> TRUE, corrupt |-> FALSE, index |-> index']
          /\ document_store_file' = [exists |-> TRUE, corrupt |-> FALSE,
                                     docs |-> documents']]_vars

\* C17 (the steps that return from query are those that leave op = "query"):
\* query leaves the index, the mapping and both files as they are; with a
\* client and an initialized system it makes one embedding call of its own, and
\* one search of its own if the embedding succeeded, also when the call before it
\* was the same query.
C17_QueryReadOnlyUncached ==
    [][ret'.op = "query" =>
          /\ UNCHANGED <<index, documents, vector_store_file, document_store_file>>
          /\ (openai_client /\ index.present /\ documents # <<>>) =>
                /\ ret'.embed_calls = 1
                /\ ret'.answer # AnswerEmbedFailed => ret'.searches = 1]_vars

\* C17 witness: a query has embedded its question, searched the index and answered.
C17_Witness ==
    /\ ret.op = "query"
    /\ ret.embed_calls = 1
    /\ ret.searches = 1
    /\ ret.answer = AnswerOfModel
    /\ ret.found # <<>>

\* The positions come by ascending distance to q, the lower position first among
\* equal distances.
Ranked(positions, ix, q) ==
    \A i, j \in 1..Len(positions) :
        i < j =>
            \/ Distance(q, ix.xb[positions[i]]) < Distance(q, ix.xb[positions[j]])
            \/ /\ Distance(q, ix.xb[positions[i]]) = Distance(q, ix.xb[positions[j]])
               /\ positions[i] < positions[j]

\* C18: a query whose top_k exceeds the number n >= 1 of vectors in the index
\* gets n ranked results from its search without error, and retrieves n documents.
C18_SearchReturnsAll ==
    (ret.op = "query" /\ ret.searches = 1
       /\ Len(index.xb) >= 1 /\ Len(index.xb) < ret.top_k) =>
        /\ ~ret.raised
        /\ Len(ret.found) = Len(index.xb)
        /\ Ranked(ret.found, index, ProviderVector(ret.text))
        /\ Len(ret.retrieved) = Len(index.xb)

\* source and metadata of each retrieved document.
InfosOf(retrieved) ==
    [i \in 1..Len(retrieved) |->
        [source |-> retrieved[i].source, metadata |-> retrieved[i].metadata]]

FirstIndex(seq, x) == Min({i \in 1..Len(seq) : seq[i] = x})

\* C19: in a successful result, sources holds each {source, metadata} pair of the
\* retrieved documents once, in the order of their first occurrence.
C19_SourcesDeduplicated ==
    (ret.op = "query" /\ ret.answer = AnswerOfModel) =>
        LET infos == InfosOf(ret.retrieved)
        IN  /\ {ret.sources[i] : i \in 1..Len(ret.sources)} =
                  {infos[i] : i \in 1..Len(infos)}
            /\ \A i, j \in 1..Len(ret.sources) :
                  i < j => /\ ret.sources[i] # ret.sources[j]
                           /\ FirstIndex(infos, ret.sources[i]) <
                                 FirstIndex(infos, ret.sources[j])

\* C19 witness: a successful result with two sources or more, drawn from more
\* retrieved documents than there are sources.
C19_Witness ==
    /\ ret.op = "query"
    /\ ret.answer = AnswerOfModel
    /\ Len(ret.sources) >= 2
    /\ Len(ret.retrieved) > Len(ret.sources)

\* C20: chat_completion stops at the first attempt that succeeds or raises an
\* error that is not transient, and at the fifth attempt at the latest; it
\* raises unless that last attempt succeeded.
C20_ChatRetries ==
    ret.op = "chat_completion" =>
        LET ends == {n \in 1..5 : Outcome(ret.script, n) \notin TransientErrors}
            last == IF ends = {} THEN 5 ELSE Min(ends)
        IN  /\ ret.chat_attempts = last
            /\ ret.raised = (Outcome(ret.script, last) # "ok")

\* C20 witness: a call that gave up after five transient errors.
C20_Witness ==
    /\ ret.op = "chat_completion"
    /\ ret.raised
    /\ ret.chat_attempts = 5
    /\ \A n \in 1..5 : Outcome(ret.script, n) \in TransientErrors

(***************************************************************************)
(* Properties of the ingestion, checked under Spec.                        *)
(***************************************************************************)
\* The field of the report that a section is made from.
SectionField(name) == IF name = "code_quality" THEN "code_quality_assessment" ELSE name

\* C21: after a rebuild, a report that was processed has a record for a section
\* exactly when the field of that section is present in the file and not empty.
C21_RecordIffSectionPresent ==
    AfterRebuild =>
        \A r \in { <<corpus.mistral, "mistral", AnalysisSections(corpus.mistral.analysis)>>,
                   <<corpus.openai, "openai", AnalysisSections(corpus.openai.analysis)>>,
                   <<corpus.comparison, "comparison",
                     SummarySections(corpus.comparison.analysis)>> } :
            (r[1].exists /\ r[1].json_ok /\ r[1].has_key) =>
                \A s \in 1..Len(r[3]) :
                    (\E n \in 1..Len(documents) : documents[n].id = <<r[2], r[3][s][1]>>)
                        <=> /\ SectionField(r[3][s][1]) \in DOMAIN r[1].analysis
                            /\ r[1].analysis[SectionField(r[3][s][1])] # <<>>

\* C22: a rebuild returns whatever sources are missing; a missing source leaves
\* no record, and every embedding call of the run is for a record of the store.
C22_MissingSourcesSkipped ==
    (ret.op = "initialize" /\ ~ret.loaded /\ ~ReadmeRaises(corpus)) =>
        /\ ~ret.raised
        /\ ret.success
        /\ index.present
        /\ vector_store_file.exists /\ document_store_file.exists
        /\ \A n \in 1..Len(documents) :
              /\ ~corpus.readme.exists => documents[n].source # "README.md"
              /\ corpus.md = <<>> =>
                    (documents[n].metadata.type = "documentation"
                        => documents[n].source = "README.md")
              /\ ~corpus.mistral.exists => documents[n].source # "Mistral Analysis"
              /\ ~corpus.openai.exists => documents[n].source # "OpenAI Analysis"
              /\ ~corpus.comparison.exists => documents[n].source # "Comparison Analysis"
        /\ Len(index.xb) <= Len(ret.log)
        /\ \A i \in 1..Len(ret.log) :
              \E n \in 1..Len(documents) : documents[n].id = ret.log[i].id
        /\ (~corpus.readme.exists /\ corpus.md = <<>> /\ ~corpus.mistral.exists
              /\ ~corpus.openai.exists /\ ~corpus.comparison.exists) =>
                 (documents = <<>> /\ index.xb = <<>>)

\* C22 witness: a rebuild of a tree without README and without one report has
\* stored records and vectors of the sources that are there.
C22_Witness ==
    /\ AfterRebuild
    /\ ~corpus.readme.exists
    /\ ~corpus.comparison.exists
    /\ documents # <<>>
    /\ index.xb # <<>>

C24_EmbedFailureStopsQuery ==
    (ret.op = "query" /\ ret.embed_calls = 1 /\ ret.value.none) =>
        /\ ~ret.raised
        /\ ret.answer = AnswerEmbedFailed
        /\ ret.sources = <<>>
        /\ ret.searches = 0
        /\ ret.chat_attempts = 0

\* C24 witness: a query on an initialized system with a client, whose embedding
\* call failed.
C24_Witness ==
    /\ ret.op = "query"
    /\ openai_client
    /\ index.present
    /\ documents # <<>>
    /\ ret.embed_calls = 1
    /\ ret.value.none
    /\ ret.answer = AnswerEmbedFailed

(* Properties of the persisted files, checked under SpecPersisted. *)
\* C25: with both files present and one of them corrupt, initialize(force=False)
\* raises, initialize_rag_system(force=False) returns False, and both files stay
\* as they are.
C25_CorruptLoadPropagates ==
    [][(/\ vector_store_file.exists
        /\ document_store_file.exists
        /\ vector_store_file.corrupt \/ document_store_file.corrupt
        /\ ret'.op \in {"initialize", "initialize_rag_system"}
        /\ ret'.loaded) =>
          /\ ret'.op = "initialize" => ret'.raised
          /\ ~ret'.success
          /\ UNCHANGED <<vector_store_file, document_store_file>>]_vars

\* C25 witness: initialize(force=False) has raised on a corrupt document store
\* after it had read the index.
C25_Witness ==
    /\ ret.op = "initialize"
    /\ ret.loaded
    /\ ret.raised
    /\ document_store_file.corrupt
    /\ ~vector_store_file.corrupt
    /\ index = vector_store_file.index
    /\ index.present

(* Properties of the ingestion, checked under Spec. *)
\* C27: a rebuild returns and persists its result whatever source could not be
\* read, and every report that can be read and has a section leaves a record.
C27_SourcesIndependent ==
    (ret.op = "initialize" /\ ~ret.loaded) =>
        /\ ~ret.raised
        /\ document_store_file = SavedDocumentFile(documents)
        /\ \A r \in { <<corpus.mistral, "Mistral Analysis">>,
                      <<corpus.openai, "OpenAI Analysis">>,
                      <<corpus.comparison, "Comparison Analysis">> } :
              (r[1].exists /\ r[1].json_ok /\ r[1].has_key /\ r[1].analysis # NoFields) =>
                  \E n \in 1..Len(documents) : documents[n].source = r[2]

\* The files inside the version-control metadata directory.
InVersionControlDir(f) == f.path \in {".git/info.md"}

\* C28: after a rebuild every readable markdown file with text, other than the
\* top-level README.md and the files inside .git, has a record under its stem.
C28_EveryOtherMarkdownIngested ==
    AfterRebuild =>
        \A i \in 1..Len(corpus.md) :
            (/\ corpus.md[i].path # "README.md"
             /\ ~InVersionControlDir(corpus.md[i])
             /\ corpus.md[i].readable
             /\ corpus.md[i].text # <<>>) =>
                \E n \in 1..Len(documents) : documents[n].id[1] = corpus.md[i].stem

(* Properties of the tools, checked under SpecTools. *)
\* C26: analyze_with_openai never raises, and without a key, with a failing chat
\* call or with a response that cannot be parsed it returns the simulated
\* analysis.
C26_AnalyzerFallsBack ==
    ret.op = "analyze_with_openai" =>
        /\ ~ret.raised
        /\ (~openai_client \/ ChatCompletion(ret.script).raised \/ ~ret.tool.parse_ok)
              => ret.tool.analysis = SimulatedAnalysis

\* C29: a technology that only one provider names, and a score that differs by 3
\* or more, each have their entry in key_differences, which is then not the
\* single entry for no differences.
C29_DifferencesReported ==
    ret.op = "compare" =>
        LET m == ret.tool.mistral
            o == ret.tool.openai
            entries == ret.tool.key_differences
            has(kind, about) ==
                \E i \in 1..Len(entries) : entries[i] = Difference(kind, about)
        IN  /\ m.technology_stack \ o.technology_stack # {} => has("mistral_only", "")
            /\ o.technology_stack \ m.technology_stack # {} => has("openai_only", "")
            /\ Abs(m.complexity_score - o.complexity_score) >= 3 => has("score", "complexity")
            /\ Abs(m.maintainability_score - o.maintainability_score) >= 3
                  => has("score", "maintainability")
            /\ (\/ m.technology_stack # o.technology_stack
                \/ Abs(m.complexity_score - o.complexity_score) >= 3
                \/ Abs(m.maintainability_score - o.maintainability_score) >= 3)
                  => entries # <<NoDifferences>>

RECURSIVE WordsOfChunks(_)
\* The words of the chunks, in order.
WordsOfChunks(chunks) ==
    IF chunks = <<>> THEN <<>>
    ELSE SplitWords(Head(chunks)) \o WordsOfChunks(Tail(chunks))

\* C30: the chunks chunk_text returns are not empty, and their words in order
\* are the words of the text.
C30_ChunksPartitionWords ==
    ret.op = "chunk_text" =>
        /\ \A i \in 1..Len(ret.tool.chunks) : ret.tool.chunks[i] # <<>>
        /\ WordsOfChunks(ret.tool.chunks) = SplitWords(ret.tool.text)

====
